---- MODULE Spec2Model ----
(***************************************************************************)
(* geo-svg: the ToSvgStr implementations of src/svg_impl.rs.               *)
(*                                                                         *)
(* Every implementation is a pair of pure functions of a geometry and a    *)
(* style: to_svg_str (the SVG fragment) and viewbox (the padded bounding   *)
(* rectangle).  The state machine holds one call: its receiver `geom`, its *)
(* argument `style`, and, once the call has returned, its result in `out`  *)
(* (to_svg_str) or `vb` (viewbox).  `a`, `b`, `c` are ViewBox operands of  *)
(* direct ViewBox::add calls.                                              *)
(*                                                                         *)
(* Numbers.  Coordinates, radius and stroke width are integers (f32/f64    *)
(* values that are whole).  The f64 values computed in Poi mode (which     *)
(* halve the icon's width and height) are kept in units of 1/2, so that    *)
(* they stay exact: the fields x2, y2 of an element hold twice the number  *)
(* the fragment prints.                                                    *)
(*                                                                         *)
(* Text.  A fragment is the sequence of the elements it prints, an element *)
(* a record of its tag, attributes and body; concatenating fragments is    *)
(* concatenating sequences.  Path data is the sequence of its commands.    *)
(***************************************************************************)
EXTENDS Integers, Sequences, FiniteSets, TLC

VARIABLES geom, style, pc, vb, out, a, b, c

vars == <<geom, style, pc, vb, out, a, b, c>>

---------------------------------------------------------------------------
(* Bounds of the model *)

\* coordinates range over -1 .. MaxCoord
MaxCoord == 1
\* a LineString or ring holds at most MaxLen coordinates
MaxLen == 3
\* a Multi*, collection, Vec or slice holds at most MaxMembers members
MaxMembers == 2

---------------------------------------------------------------------------
(* Option<T>: None is the empty sequence, Some(v) the sequence of v *)

None == <<>>

Some(v) == <<v>>

is_some(o) == o # None

unwrap_or(o, d) == IF o = None THEN d ELSE o[1]

---------------------------------------------------------------------------
(* ViewBox: the accumulator of bounding rectangles *)

ViewBox_new(min_x, min_y, max_x, max_y) ==
    [min_x |-> Some(min_x), min_y |-> Some(min_y),
     max_x |-> Some(max_x), max_y |-> Some(max_y)]

ViewBox_default ==
    [min_x |-> None, min_y |-> None, max_x |-> None, max_y |-> None]

partial_min(p, q) ==
    IF p = None THEN q
    ELSE IF q = None THEN p
    ELSE IF p[1] < q[1] THEN p ELSE q

partial_max(p, q) ==
    IF p = None THEN q
    ELSE IF q = None THEN p
    ELSE IF p[1] > q[1] THEN p ELSE q

ViewBox_add(self, other) ==
    [min_x |-> partial_min(self.min_x, other.min_x),
     min_y |-> partial_min(self.min_y, other.min_y),
     max_x |-> partial_max(self.max_x, other.max_x),
     max_y |-> partial_max(self.max_y, other.max_y)]

\* iter().fold(init, |view_box, m| view_box.add(&m)) over the members' boxes
RECURSIVE fold_add(_, _)
fold_add(init, boxes) ==
    IF boxes = <<>> THEN init
    ELSE fold_add(ViewBox_add(init, Head(boxes)), Tail(boxes))

\* collect, had it put each fragment before the ones already gathered
RECURSIVE collect_reversed(_)
collect_reversed(frags) ==
    IF frags = <<>> THEN <<>>
    ELSE collect_reversed(Tail(frags)) \o Head(frags)

\* iter().map(..).collect::<String>(): the fragments one after the other
RECURSIVE collect(_)
collect(frags) ==
    IF frags = <<>> THEN <<>>
    ELSE Head(frags) \o collect(Tail(frags))

\* Iterator::reduce(|a, b| format!("{} {}", a, b)).unwrap_or(""): the parts
\* joined from the left, the empty text when there is none
RECURSIVE reduce_join(_)
reduce_join(parts) ==
    IF parts = <<>> THEN <<>>
    ELSE reduce_join(SubSeq(parts, 1, Len(parts) - 1)) \o parts[Len(parts)]

\* Iterator::flat_map: the items of each sequence, sequence after sequence
RECURSIVE flat_map(_)
flat_map(seqs) ==
    IF seqs = <<>> THEN <<>>
    ELSE Head(seqs) \o flat_map(Tail(seqs))

---------------------------------------------------------------------------
(* Numeric conversions *)

\* NumCast::from(v): Option<f32>; every coordinate of the model is in range
NumCast_from(v) == Some(v)

DigitChars == <<"0", "1", "2", "3", "4", "5", "6", "7", "8", "9">>

RECURSIVE Digits(_)
Digits(n) ==
    IF n < 10 THEN <<DigitChars[n + 1]>>
    ELSE Digits(n \div 10) \o <<DigitChars[(n % 10) + 1]>>

\* format!("{:?}", v) of an integer coordinate: its characters
format_debug(v) == IF v < 0 THEN <<"-">> \o Digits(0 - v) ELSE Digits(v)

DigitValue(ch) == CHOOSE d \in 0..9 : DigitChars[d + 1] = ch

RECURSIVE ParseDigits(_, _)
ParseDigits(s, acc) ==
    IF s = <<>> THEN acc
    ELSE ParseDigits(Tail(s), 10 * acc + DigitValue(Head(s)))

AllDigits(s) ==
    /\ s # <<>>
    /\ \A i \in 1..Len(s) : \E d \in 1..10 : DigitChars[d] = s[i]

\* parse_f64, had it taken digits only: a signed text is an Err
parse_f64_unsigned(s) ==
    IF AllDigits(s) THEN Some(2 * ParseDigits(s, 0)) ELSE None

\* str::parse::<f64>() on a sign and digits: Some(value), in units of 1/2;
\* None stands for Err
parse_f64(s) ==
    IF s # <<>> /\ Head(s) = "-"
    THEN IF AllDigits(Tail(s)) THEN Some(0 - 2 * ParseDigits(Tail(s), 0)) ELSE None
    ELSE IF s # <<>> /\ Head(s) = "+"
    THEN IF AllDigits(Tail(s)) THEN Some(2 * ParseDigits(Tail(s), 0)) ELSE None
    ELSE IF AllDigits(s) THEN Some(2 * ParseDigits(s, 0)) ELSE None

---------------------------------------------------------------------------
(* Style: read through its fields; its Display output is opaque *)

\* the attribute string format!("{style}") interpolates
StyleAttrs(s) == <<"style", s>>

DefaultIconViewbox == <<0, 0, 100, 100>>

DefaultIconWidthHeight == <<60, 60>>

---------------------------------------------------------------------------
(* Point *)

Point_to_svg_str(self, s) ==
    IF is_some(s.point_type)
    THEN CASE s.point_type[1] = "Text" ->
                <<[tag |-> "text",
                   class |-> unwrap_or(s.text_classes, ""),
                   x |-> self.x, y |-> self.y,
                   style |-> StyleAttrs(s),
                   body |-> unwrap_or(s.text, "")]>>
           [] s.point_type[1] = "Poi" ->
                LET ivb == unwrap_or(s.icon_svg_viewbox, DefaultIconViewbox)
                    wh == unwrap_or(s.icon_svg_width_height, DefaultIconWidthHeight)
                    width == wh[1]
                    height == wh[2]
                    x == unwrap_or(parse_f64(format_debug(self.x)), 0)
                    y == unwrap_or(parse_f64(format_debug(self.y)), 0)
                    text == IF is_some(s.text)
                            THEN <<[tag |-> "text",
                                    x2 |-> x + width + 30,
                                    y2 |-> y + 2 * height - 90,
                                    body |-> s.text[1]]>>
                            ELSE <<>>
                IN  <<[tag |-> "svg",
                       x2 |-> x - width,
                       y2 |-> y - height,
                       width |-> width, height |-> height,
                       viewBox |-> ivb,
                       style |-> StyleAttrs(s),
                       body |-> unwrap_or(s.icon_svg_path, "")]>> \o text
           [] s.point_type[1] \in {"Symbol", "Circle"} ->
                <<[tag |-> "circle", alt |-> None,
                   cx |-> self.x, cy |-> self.y, r |-> s.radius,
                   style |-> StyleAttrs(s)]>>
    ELSE <<[tag |-> "circle", alt |-> Some("point_type_none"),
            cx |-> self.x, cy |-> self.y, r |-> s.radius,
            style |-> StyleAttrs(s)]>>

\* Point_viewbox, had it bounded the icon's footprint in Poi mode
Point_viewbox_icon_footprint(self, s) ==
    LET wh == unwrap_or(s.icon_svg_width_height, DefaultIconWidthHeight)
        radius == IF s.point_type = Some("Poi")
                  THEN wh[1]
                  ELSE s.radius + unwrap_or(s.stroke_width, 1)
    IN  ViewBox_new(unwrap_or(NumCast_from(self.x), 0) - radius,
                    unwrap_or(NumCast_from(self.y), 0) - radius,
                    unwrap_or(NumCast_from(self.x), 0) + radius,
                    unwrap_or(NumCast_from(self.y), 0) + radius)

Point_viewbox(self, s) ==
    LET radius == s.radius + unwrap_or(s.stroke_width, 1)
    IN  ViewBox_new(unwrap_or(NumCast_from(self.x), 0) - radius,
                    unwrap_or(NumCast_from(self.y), 0) - radius,
                    unwrap_or(NumCast_from(self.x), 0) + radius,
                    unwrap_or(NumCast_from(self.y), 0) + radius)

---------------------------------------------------------------------------
(* Coordinate *)

Coordinate_to_svg_str(self, s) == Point_to_svg_str(self, s)

Coordinate_viewbox(self, s) == Point_viewbox(self, s)

---------------------------------------------------------------------------
(* MultiPoint *)

MultiPoint_to_svg_str(self, s) ==
    collect([i \in 1..Len(self) |-> Point_to_svg_str(self[i], s)])

MultiPoint_viewbox(self, s) ==
    fold_add(ViewBox_default, [i \in 1..Len(self) |-> Point_viewbox(self[i], s)])

---------------------------------------------------------------------------
(* Line *)

Line_to_svg_str(self, s) ==
    <<[tag |-> "path",
       d |-> << <<"M", self.start.x, self.start.y>>,
                <<"L", self.end.x, self.end.y>> >>,
       style |-> StyleAttrs(s)]>>

\* Line_viewbox, had it passed the caller's style on, radius and all
Line_viewbox_keeps_radius(self, s) ==
    ViewBox_add(Point_viewbox(self.start, s), Point_viewbox(self.end, s))

Line_viewbox(self, s) ==
    LET style0 == [s EXCEPT !.radius = 0]
    IN  ViewBox_add(Point_viewbox(self.start, style0),
                    Point_viewbox(self.end, style0))

---------------------------------------------------------------------------
(* LineString: the sequence of its coordinates *)

\* LineString::lines(): one Line per pair of consecutive coordinates
LineString_lines(self) ==
    IF Len(self) < 2 THEN <<>>
    ELSE [i \in 1..(Len(self) - 1) |-> [start |-> self[i], end |-> self[i + 1]]]

\* LineString_to_svg_str, had it asked for the text alone
LineString_to_svg_str_text_only(self, s) ==
    LET lines == LineString_lines(self)
        d == reduce_join([i \in 1..Len(lines) |->
                        << <<"M", lines[i].start.x, lines[i].start.y>>,
                           <<"L", lines[i].end.x, lines[i].end.y>> >>])
        text_part ==
            IF is_some(s.text)
            THEN <<[tag |-> "text",
                    class |-> unwrap_or(s.text_classes, ""),
                    textPath |->
                        [href |-> unwrap_or(s.id, ""),
                         attrs |-> IF is_some(s.text_start_offset)
                                   THEN << <<"startOffset", s.text_start_offset[1]>> >>
                                   ELSE <<>>,
                         body |-> s.text[1]]]>>
            ELSE <<>>
    IN  <<[tag |-> "path", d |-> d, style |-> StyleAttrs(s)]>> \o text_part

LineString_to_svg_str(self, s) ==
    LET lines == LineString_lines(self)
        d == reduce_join([i \in 1..Len(lines) |->
                        << <<"M", lines[i].start.x, lines[i].start.y>>,
                           <<"L", lines[i].end.x, lines[i].end.y>> >>])
        text_part ==
            IF is_some(s.text) /\ is_some(s.id)
            THEN <<[tag |-> "text",
                    class |-> unwrap_or(s.text_classes, ""),
                    textPath |->
                        [href |-> s.id[1],
                         attrs |-> IF is_some(s.text_start_offset)
                                   THEN << <<"startOffset", s.text_start_offset[1]>> >>
                                   ELSE <<>>,
                         body |-> s.text[1]]]>>
            ELSE <<>>
    IN  <<[tag |-> "path", d |-> d, style |-> StyleAttrs(s)]>> \o text_part

LineString_viewbox(self, s) ==
    LET lines == LineString_lines(self)
    IN  fold_add(ViewBox_default,
                 [i \in 1..Len(lines) |-> Line_viewbox(lines[i], s)])

---------------------------------------------------------------------------
(* MultiLineString *)

MultiLineString_to_svg_str(self, s) ==
    collect([i \in 1..Len(self) |-> LineString_to_svg_str(self[i], s)])

MultiLineString_viewbox(self, s) ==
    fold_add(ViewBox_default,
             [i \in 1..Len(self) |-> LineString_viewbox(self[i], s)])

---------------------------------------------------------------------------
(* Polygon: an exterior ring and interior rings, each closed *)

\* LineString::close(), as Polygon::new applies it to every ring
LineString_close(ring) ==
    IF ring = <<>> \/ ring[1] = ring[Len(ring)] THEN ring
    ELSE Append(ring, ring[1])

Polygon_new(exterior, interiors) ==
    [exterior |-> LineString_close(exterior),
     interiors |-> [i \in 1..Len(interiors) |-> LineString_close(interiors[i])]]

\* one contour's commands: M first, L for each further point, then Z
ContourPath(contour) ==
    (IF contour # <<>>
     THEN << <<"M", contour[1].x, contour[1].y>> >>
     ELSE <<>>)
    \o (IF Len(contour) < 2 THEN <<>>
        ELSE [i \in 1..(Len(contour) - 1) |->
                <<"L", contour[i + 1].x, contour[i + 1].y>>])
    \o << <<"Z">> >>

\* Polygon_contours, had the chain started with the interiors
Polygon_contours_interiors_first(self) == self.interiors \o <<self.exterior>>

\* std::iter::once(self.exterior()).chain(self.interiors().iter())
Polygon_contours(self) == <<self.exterior>> \o self.interiors

Polygon_to_svg_str(self, s) ==
    LET contours == Polygon_contours(self)
        path == collect([i \in 1..Len(contours) |-> ContourPath(contours[i])])
    IN  <<[tag |-> "path", fill_rule |-> "evenodd", d |-> path,
           style |-> StyleAttrs(s)]>>

\* exterior().lines().chain(interiors().iter().flat_map(|i| i.lines()))
Polygon_lines(self) ==
    LineString_lines(self.exterior)
    \o flat_map([i \in 1..Len(self.interiors) |->
                    LineString_lines(self.interiors[i])])

Polygon_viewbox(self, s) ==
    LET lines == Polygon_lines(self)
    IN  fold_add(ViewBox_default,
                 [i \in 1..Len(lines) |-> Line_viewbox(lines[i], s)])

---------------------------------------------------------------------------
(* Rect: its min and max corners *)

Min(p, q) == IF p < q THEN p ELSE q

Max(p, q) == IF p > q THEN p ELSE q

\* Rect::new(c1, c2) orders the corners
Rect_new(c1, c2) ==
    [min |-> [x |-> Min(c1.x, c2.x), y |-> Min(c1.y, c2.y)],
     max |-> [x |-> Max(c1.x, c2.x), y |-> Max(c1.y, c2.y)]]

\* Polygon::from(rect), Rect::to_polygon(): the four corners, closed (no
\* property below reads the order the library walks them in)
Rect_to_polygon(self) ==
    Polygon_new(<<[x |-> self.min.x, y |-> self.min.y],
                  [x |-> self.min.x, y |-> self.max.y],
                  [x |-> self.max.x, y |-> self.max.y],
                  [x |-> self.max.x, y |-> self.min.y],
                  [x |-> self.min.x, y |-> self.min.y]>>, <<>>)

Rect_to_svg_str(self, s) == Polygon_to_svg_str(Rect_to_polygon(self), s)

\* Rect_viewbox, had it joined the point viewboxes of the two corners
Rect_viewbox_corner_points(self, s) ==
    ViewBox_add(Point_viewbox(self.min, s), Point_viewbox(self.max, s))

Rect_viewbox(self, s) == Polygon_viewbox(Rect_to_polygon(self), s)

---------------------------------------------------------------------------
(* Triangle: the sequence of its three corners *)

\* Polygon::new(self.to_array().iter().cloned().collect(), vec![])
Triangle_collect_polygon(self) == Polygon_new(self, <<>>)

\* Triangle::to_polygon(): the three corners and the first again
Triangle_to_polygon(self) ==
    Polygon_new(<<self[1], self[2], self[3], self[1]>>, <<>>)

Triangle_to_svg_str(self, s) ==
    Polygon_to_svg_str(Triangle_collect_polygon(self), s)

Triangle_viewbox(self, s) ==
    Polygon_viewbox(Triangle_collect_polygon(self), s)

---------------------------------------------------------------------------
(* MultiPolygon *)

MultiPolygon_to_svg_str(self, s) ==
    collect([i \in 1..Len(self) |-> Polygon_to_svg_str(self[i], s)])

\* MultiPolygon_viewbox, had the fold dropped what it had accumulated
MultiPolygon_viewbox_last(self, s) ==
    IF self = <<>> THEN ViewBox_default
    ELSE Polygon_viewbox(self[Len(self)], s)

MultiPolygon_viewbox(self, s) ==
    fold_add(ViewBox_default,
             [i \in 1..Len(self) |-> Polygon_viewbox(self[i], s)])

---------------------------------------------------------------------------
(* Geometry: the enum [variant, inner], and GeometryCollection, the       *)
(* sequence of its Geometry members                                        *)

RECURSIVE Geometry_to_svg_str(_, _)
RECURSIVE GeometryCollection_to_svg_str(_, _)
RECURSIVE Geometry_viewbox(_, _)
RECURSIVE GeometryCollection_viewbox(_, _)

Geometry_to_svg_str(self, s) ==
    CASE self.variant = "Point" -> Point_to_svg_str(self.inner, s)
      [] self.variant = "Line" -> Line_to_svg_str(self.inner, s)
      [] self.variant = "LineString" -> LineString_to_svg_str(self.inner, s)
      [] self.variant = "Triangle" ->
            Polygon_to_svg_str(Triangle_to_polygon(self.inner), s)
      [] self.variant = "Rect" ->
            Polygon_to_svg_str(Rect_to_polygon(self.inner), s)
      [] self.variant = "Polygon" -> Polygon_to_svg_str(self.inner, s)
      [] self.variant = "MultiPoint" -> MultiPoint_to_svg_str(self.inner, s)
      [] self.variant = "MultiLineString" ->
            MultiLineString_to_svg_str(self.inner, s)
      [] self.variant = "MultiPolygon" -> MultiPolygon_to_svg_str(self.inner, s)
      [] self.variant = "GeometryCollection" ->
            GeometryCollection_to_svg_str(self.inner, s)

Geometry_viewbox(self, s) ==
    CASE self.variant = "Point" -> Point_viewbox(self.inner, s)
      [] self.variant = "Line" -> Line_viewbox(self.inner, s)
      [] self.variant = "LineString" -> LineString_viewbox(self.inner, s)
      [] self.variant = "Triangle" ->
            Polygon_viewbox(Triangle_to_polygon(self.inner), s)
      [] self.variant = "Rect" ->
            Polygon_viewbox(Rect_to_polygon(self.inner), s)
      [] self.variant = "Polygon" -> Polygon_viewbox(self.inner, s)
      [] self.variant = "MultiPoint" -> MultiPoint_viewbox(self.inner, s)
      [] self.variant = "MultiLineString" ->
            MultiLineString_viewbox(self.inner, s)
      [] self.variant = "MultiPolygon" -> MultiPolygon_viewbox(self.inner, s)
      [] self.variant = "GeometryCollection" ->
            GeometryCollection_viewbox(self.inner, s)

GeometryCollection_to_svg_str(self, s) ==
    collect([i \in 1..Len(self) |-> Geometry_to_svg_str(self[i], s)])

GeometryCollection_viewbox(self, s) ==
    fold_add(ViewBox_default,
             [i \in 1..Len(self) |-> Geometry_viewbox(self[i], s)])

---------------------------------------------------------------------------
(* &[T] and Vec<T>, T: ToSvgStr.  An item is [kind, val]; T's method is    *)
(* the one of the implementation for its kind.                             *)

T_to_svg_str(item, s) ==
    CASE item.kind = "Coordinate" -> Coordinate_to_svg_str(item.val, s)
      [] item.kind = "Point" -> Point_to_svg_str(item.val, s)
      [] item.kind = "Line" -> Line_to_svg_str(item.val, s)
      [] item.kind = "LineString" -> LineString_to_svg_str(item.val, s)
      [] item.kind = "Polygon" -> Polygon_to_svg_str(item.val, s)
      [] item.kind = "Rect" -> Rect_to_svg_str(item.val, s)
      [] item.kind = "Triangle" -> Triangle_to_svg_str(item.val, s)
      [] item.kind = "Geometry" -> Geometry_to_svg_str(item.val, s)

T_viewbox(item, s) ==
    CASE item.kind = "Coordinate" -> Coordinate_viewbox(item.val, s)
      [] item.kind = "Point" -> Point_viewbox(item.val, s)
      [] item.kind = "Line" -> Line_viewbox(item.val, s)
      [] item.kind = "LineString" -> LineString_viewbox(item.val, s)
      [] item.kind = "Polygon" -> Polygon_viewbox(item.val, s)
      [] item.kind = "Rect" -> Rect_viewbox(item.val, s)
      [] item.kind = "Triangle" -> Triangle_viewbox(item.val, s)
      [] item.kind = "Geometry" -> Geometry_viewbox(item.val, s)

Slice_to_svg_str(self, s) ==
    collect([i \in 1..Len(self) |-> T_to_svg_str(self[i], s)])

Slice_viewbox(self, s) ==
    fold_add(ViewBox_default, [i \in 1..Len(self) |-> T_viewbox(self[i], s)])

Vec_to_svg_str(self, s) ==
    collect([i \in 1..Len(self) |-> T_to_svg_str(self[i], s)])

\* Vec_viewbox, had the fold been seeded with the rectangle at the origin
Vec_viewbox_zero_seed(self, s) ==
    fold_add(ViewBox_new(0, 0, 0, 0),
             [i \in 1..Len(self) |-> T_viewbox(self[i], s)])

Vec_viewbox(self, s) ==
    fold_add(ViewBox_default, [i \in 1..Len(self) |-> T_viewbox(self[i], s)])

---------------------------------------------------------------------------
(* The inputs of a call *)

SeqsUpTo(S, n) == UNION {[1..k -> S] : k \in 0..n}

Coords == (0 - 1)..MaxCoord

Coordinates == [x : Coords, y : Coords]

V1 == [x |-> 0, y |-> 0]

V2 == [x |-> MaxCoord, y |-> 0]

V3 == [x |-> 0, y |-> 0 - 1]

\* the coordinates of sequences: three that are not collinear
Vertices == {V1, V2, V3}

\* coordinate sequences as given to LineString(..) and Polygon::new
Rings == SeqsUpTo(Vertices, MaxLen)

\* interior rings as given to Polygon::new: empty, one coordinate, open, closed
HoleRings == {<<>>, <<V1>>, <<V2, V3>>, <<V3, V1, V2, V3>>}

Polygons ==
    {Polygon_new(e, h) : e \in Rings, h \in SeqsUpTo(HoleRings, 2)}

MemberLineStrings == {<<>>, <<V2>>, <<V1, V2>>, <<V3, V1, V2>>}

MemberPolygons ==
    {Polygon_new(e, h) :
        e \in {<<>>, <<V3>>, <<V1, V2>>, <<V3, V1>>, <<V1, V2, V3>>},
        h \in {<<>>, << <<V2, V3>> >>}}

Rects == {Rect_new(c1, c2) : c1 \in Coordinates, c2 \in Coordinates}

Triangles == [1..3 -> Vertices]

Lines == [start : Coordinates, end : Coordinates]

G(v, i) == [variant |-> v, inner |-> i]

Geometries ==
    {G("Point", V2),
     G("Line", [start |-> V3, end |-> V2]),
     G("LineString", <<V1>>),
     G("LineString", <<V3, V1, V2>>),
     G("Triangle", <<V1, V2, V3>>),
     G("Rect", Rect_new(V2, V3)),
     G("Polygon", Polygon_new(<<V1, V2, V3>>, << <<V1>> >>)),
     G("MultiPoint", <<V1, V3>>),
     G("MultiLineString", << <<V1, V2>>, <<V3>> >>),
     G("MultiPolygon", <<Polygon_new(<<V3, V2>>, <<>>)>>),
     G("GeometryCollection", <<>>),
     G("GeometryCollection", <<G("Point", V3), G("Line", [start |-> V1, end |-> V2])>>)}

Item(k, v) == [kind |-> k, val |-> v]

\* the items of a Vec<T> or &[T]: all of one type T
ItemSeqs ==
    SeqsUpTo({Item("Point", v) : v \in Vertices}, MaxMembers)
    \cup SeqsUpTo({Item("Coordinate", v) : v \in {V2, V3}}, MaxMembers)
    \cup SeqsUpTo({Item("Line", [start |-> V1, end |-> v]) : v \in {V2, V3}}, MaxMembers)
    \cup SeqsUpTo({Item("LineString", l) : l \in MemberLineStrings}, MaxMembers)
    \cup SeqsUpTo({Item("Polygon", p) : p \in {Polygon_new(<<V1, V2, V3>>, <<>>),
                                               Polygon_new(<<V2>>, <<>>)}}, MaxMembers)
    \cup SeqsUpTo({Item("Rect", Rect_new(V1, v)) : v \in {V2, V3}}, MaxMembers)
    \cup SeqsUpTo({Item("Triangle", <<V1, v, V3>>) : v \in {V1, V2}}, MaxMembers)
    \cup SeqsUpTo({Item("Geometry", g) :
                      g \in {G("Point", V2), G("LineString", <<V1>>),
                             G("Rect", Rect_new(V2, V3)),
                             G("GeometryCollection", <<G("Point", V3)>>)}}, MaxMembers)

Radii == {0, 2}

StrokeWidths == {None, Some(0), Some(3)}

Style0(r, sw) ==
    [point_type |-> None, text |-> None, text_classes |-> None,
     text_start_offset |-> None, id |-> None, radius |-> r,
     stroke_width |-> sw, icon_svg_viewbox |-> None,
     icon_svg_width_height |-> None, icon_svg_path |-> None]

\* styles that differ in what every viewbox reads
BaseStyles == {Style0(r, sw) : r \in Radii, sw \in StrokeWidths}

Texts == {None, Some("Main St")}

\* styles that differ in what a Point reads, mode by mode
PointStyles ==
    {[st EXCEPT !.point_type = pt, !.text = t] :
        st \in BaseStyles, pt \in {None, Some("Symbol"), Some("Circle")},
        t \in Texts}
    \cup {[st EXCEPT !.point_type = Some("Text"), !.text = t, !.text_classes = cl] :
        st \in BaseStyles, t \in Texts, cl \in {None, Some("label")}}
    \cup {[st EXCEPT !.point_type = Some("Poi"), !.text = t,
                     !.icon_svg_width_height = wh, !.icon_svg_viewbox = ivb,
                     !.icon_svg_path = ip] :
        st \in BaseStyles, t \in Texts,
        wh \in {None, Some(<<40, 25>>)}, ivb \in {None, Some(<<0, 0, 24, 24>>)},
        ip \in {None, Some("<path d='M0 0'/>")}}

\* styles that differ in what a LineString reads
LineStyles ==
    {[st EXCEPT !.text = t, !.id = id, !.text_start_offset = so,
                !.text_classes = cl] :
        st \in BaseStyles, t \in Texts, id \in {None, Some("road")},
        so \in {None, Some(5)}, cl \in {None, Some("label")}}

\* the operands of ViewBox::add
ViewBoxes ==
    {ViewBox_default}
    \cup {ViewBox_new(x0, y0, x1, y1) :
            x0 \in {0, 1}, y0 \in {0, 1}, x1 \in {0, 1}, y1 \in {0, 1}}

---------------------------------------------------------------------------
(* The state machine *)

Receiver(kind, vals, styles) ==
    /\ geom \in {Item(kind, v) : v \in vals}
    /\ style \in styles
    /\ a = ViewBox_default /\ b = ViewBox_default /\ c = ViewBox_default

Init ==
    /\ pc = "start"
    /\ vb = ViewBox_default
    /\ out = <<>>
    /\ \/ Receiver("Coordinate", Coordinates, PointStyles)
       \/ Receiver("Point", Coordinates, PointStyles)
       \/ Receiver("MultiPoint", SeqsUpTo(Vertices, MaxMembers), PointStyles)
       \/ Receiver("Line", Lines, BaseStyles)
       \/ Receiver("LineString", Rings, LineStyles)
       \/ Receiver("MultiLineString", SeqsUpTo(MemberLineStrings, MaxMembers),
                   LineStyles)
       \/ Receiver("Polygon", Polygons, BaseStyles)
       \/ Receiver("Rect", Rects, BaseStyles)
       \/ Receiver("Triangle", Triangles, BaseStyles)
       \/ Receiver("MultiPolygon", SeqsUpTo(MemberPolygons, MaxMembers), BaseStyles)
       \/ Receiver("Geometry", Geometries, BaseStyles)
       \/ Receiver("GeometryCollection", SeqsUpTo(Geometries, MaxMembers),
                   BaseStyles)
       \/ Receiver("Slice", ItemSeqs, BaseStyles)
       \/ Receiver("Vec", ItemSeqs, BaseStyles)
       \/ /\ geom = Item("ViewBox", <<>>)
          /\ style = Style0(0, None)
          /\ a \in ViewBoxes /\ b \in ViewBoxes /\ c \in ViewBoxes

\* a call of to_svg_str on a receiver of the given kind returns `frag`
ReturnsSvg(kind, frag) ==
    /\ pc = "start"
    /\ geom.kind = kind
    /\ out' = frag
    /\ pc' = "to_svg_str"
    /\ UNCHANGED <<geom, style, vb, a, b, c>>

\* a call of viewbox on a receiver of the given kind returns `box`
ReturnsViewbox(kind, box) ==
    /\ pc = "start"
    /\ geom.kind = kind
    /\ vb' = box
    /\ pc' = "viewbox"
    /\ UNCHANGED <<geom, style, out, a, b, c>>

CoordinateToSvgStr ==
    ReturnsSvg("Coordinate", Coordinate_to_svg_str(geom.val, style))

CoordinateViewbox ==
    ReturnsViewbox("Coordinate", Coordinate_viewbox(geom.val, style))

PointToSvgStr == ReturnsSvg("Point", Point_to_svg_str(geom.val, style))

PointViewbox == ReturnsViewbox("Point", Point_viewbox(geom.val, style))

MultiPointToSvgStr ==
    ReturnsSvg("MultiPoint", MultiPoint_to_svg_str(geom.val, style))

MultiPointViewbox ==
    ReturnsViewbox("MultiPoint", MultiPoint_viewbox(geom.val, style))

LineToSvgStr == ReturnsSvg("Line", Line_to_svg_str(geom.val, style))

LineViewbox == ReturnsViewbox("Line", Line_viewbox(geom.val, style))

LineStringToSvgStr ==
    ReturnsSvg("LineString", LineString_to_svg_str(geom.val, style))

LineStringViewbox ==
    ReturnsViewbox("LineString", LineString_viewbox(geom.val, style))

MultiLineStringToSvgStr ==
    ReturnsSvg("MultiLineString", MultiLineString_to_svg_str(geom.val, style))

MultiLineStringViewbox ==
    ReturnsViewbox("MultiLineString", MultiLineString_viewbox(geom.val, style))

PolygonToSvgStr == ReturnsSvg("Polygon", Polygon_to_svg_str(geom.val, style))

PolygonViewbox == ReturnsViewbox("Polygon", Polygon_viewbox(geom.val, style))

RectToSvgStr == ReturnsSvg("Rect", Rect_to_svg_str(geom.val, style))

RectViewbox == ReturnsViewbox("Rect", Rect_viewbox(geom.val, style))

TriangleToSvgStr == ReturnsSvg("Triangle", Triangle_to_svg_str(geom.val, style))

TriangleViewbox == ReturnsViewbox("Triangle", Triangle_viewbox(geom.val, style))

MultiPolygonToSvgStr ==
    ReturnsSvg("MultiPolygon", MultiPolygon_to_svg_str(geom.val, style))

MultiPolygonViewbox ==
    ReturnsViewbox("MultiPolygon", MultiPolygon_viewbox(geom.val, style))

GeometryToSvgStr == ReturnsSvg("Geometry", Geometry_to_svg_str(geom.val, style))

GeometryViewbox == ReturnsViewbox("Geometry", Geometry_viewbox(geom.val, style))

GeometryCollectionToSvgStr ==
    ReturnsSvg("GeometryCollection",
               GeometryCollection_to_svg_str(geom.val, style))

GeometryCollectionViewbox ==
    ReturnsViewbox("GeometryCollection",
                   GeometryCollection_viewbox(geom.val, style))

SliceToSvgStr == ReturnsSvg("Slice", Slice_to_svg_str(geom.val, style))

SliceViewbox == ReturnsViewbox("Slice", Slice_viewbox(geom.val, style))

VecToSvgStr == ReturnsSvg("Vec", Vec_to_svg_str(geom.val, style))

VecViewbox == ReturnsViewbox("Vec", Vec_viewbox(geom.val, style))

\* a.add(&b)
AddAB ==
    /\ pc = "start"
    /\ geom.kind = "ViewBox"
    /\ vb' = ViewBox_add(a, b)
    /\ pc' = "add_ab"
    /\ UNCHANGED <<geom, style, out, a, b, c>>

\* a.add(&b).add(&c)
AddC ==
    /\ pc = "add_ab"
    /\ vb' = ViewBox_add(vb, c)
    /\ pc' = "add_ab_c"
    /\ UNCHANGED <<geom, style, out, a, b, c>>

\* ViewBox::default().add(&a)
AddToDefault ==
    /\ pc = "start"
    /\ geom.kind = "ViewBox"
    /\ vb' = ViewBox_add(ViewBox_default, a)
    /\ pc' = "add_default"
    /\ UNCHANGED <<geom, style, out, a, b, c>>

Next ==
    \/ CoordinateToSvgStr \/ CoordinateViewbox
    \/ PointToSvgStr \/ PointViewbox
    \/ MultiPointToSvgStr \/ MultiPointViewbox
    \/ LineToSvgStr \/ LineViewbox
    \/ LineStringToSvgStr \/ LineStringViewbox
    \/ MultiLineStringToSvgStr \/ MultiLineStringViewbox
    \/ PolygonToSvgStr \/ PolygonViewbox
    \/ RectToSvgStr \/ RectViewbox
    \/ TriangleToSvgStr \/ TriangleViewbox
    \/ MultiPolygonToSvgStr \/ MultiPolygonViewbox
    \/ GeometryToSvgStr \/ GeometryViewbox
    \/ GeometryCollectionToSvgStr \/ GeometryCollectionViewbox
    \/ SliceToSvgStr \/ SliceViewbox
    \/ VecToSvgStr \/ VecViewbox
    \/ AddAB \/ AddC \/ AddToDefault

Spec == Init /\ [][Next]_vars

---------------------------------------------------------------------------
(* What the properties below read off a state *)

\* the stroke padding: style.stroke_width if set, else 1.0
StrokePad(s) == IF s.stroke_width = None THEN 1 ELSE s.stroke_width[1]

\* the rectangle with all four sides set
Rectangle(x0, y0, x1, y1) ==
    [min_x |-> <<x0>>, min_y |-> <<y0>>, max_x |-> <<x1>>, max_y |-> <<y1>>]

\* box has four sides and the coordinate lies within them
Contains(box, co) ==
    /\ box.min_x # <<>> /\ box.min_y # <<>>
    /\ box.max_x # <<>> /\ box.max_y # <<>>
    /\ box.min_x[1] <= co.x /\ co.x <= box.max_x[1]
    /\ box.min_y[1] <= co.y /\ co.y <= box.max_y[1]

SetMin(S) == CHOOSE m \in S : \A n \in S : m <= n

SetMax(S) == CHOOSE m \in S : \A n \in S : m >= n

\* the smallest rectangle around the coordinates cs (not empty), padded
PaddedBounds(cs, pad) ==
    Rectangle(SetMin({co.x : co \in cs}) - pad, SetMin({co.y : co \in cs}) - pad,
              SetMax({co.x : co \in cs}) + pad, SetMax({co.y : co \in cs}) + pad)

SeqCoords(r) == {r[i] : i \in 1..Len(r)}

PolygonCoords(p) ==
    SeqCoords(p.exterior)
    \cup UNION {SeqCoords(p.interiors[i]) : i \in 1..Len(p.interiors)}

RECURSIVE GeometryCoords(_)
GeometryCoords(g) ==
    CASE g.variant = "Point" -> {g.inner}
      [] g.variant = "Line" -> {g.inner.start, g.inner.end}
      [] g.variant \in {"LineString", "Triangle", "MultiPoint"} -> SeqCoords(g.inner)
      [] g.variant = "Rect" ->
            {[x |-> px, y |-> py] : px \in {g.inner.min.x, g.inner.max.x},
                                    py \in {g.inner.min.y, g.inner.max.y}}
      [] g.variant = "Polygon" -> PolygonCoords(g.inner)
      [] g.variant = "MultiLineString" ->
            UNION {SeqCoords(g.inner[i]) : i \in 1..Len(g.inner)}
      [] g.variant = "MultiPolygon" ->
            UNION {PolygonCoords(g.inner[i]) : i \in 1..Len(g.inner)}
      [] g.variant = "GeometryCollection" ->
            UNION {GeometryCoords(g.inner[i]) : i \in 1..Len(g.inner)}

\* every coordinate of a receiver [kind, val]
CoordsOf(r) ==
    CASE r.kind = "Coordinate" -> {r.val}
      [] r.kind = "Geometry" -> GeometryCoords(r.val)
      [] r.kind \in {"Slice", "Vec"} ->
            UNION {IF r.val[i].kind = "Geometry"
                   THEN GeometryCoords(r.val[i].val)
                   ELSE IF r.val[i].kind = "Coordinate" THEN {r.val[i].val}
                   ELSE GeometryCoords(G(r.val[i].kind, r.val[i].val)) :
                   i \in 1..Len(r.val)}
      [] r.kind = "ViewBox" -> {}
      [] OTHER -> GeometryCoords(G(r.kind, r.val))

\* the edges Line::viewbox is folded over, for a Line, LineString or Polygon
EdgesOf(r) ==
    CASE r.kind = "Line" -> {r.val}
      [] r.kind = "LineString" ->
            {[start |-> r.val[i], end |-> r.val[i + 1]] : i \in 1..(Len(r.val) - 1)}
      [] r.kind = "Polygon" ->
            LET rings == <<r.val.exterior>> \o r.val.interiors
            IN  UNION {{[start |-> rings[k][i], end |-> rings[k][i + 1]] :
                            i \in 1..(Len(rings[k]) - 1)} : k \in 1..Len(rings)}

---------------------------------------------------------------------------
(* C1  containment *)

\* C1: once viewbox has returned, the returned rectangle contains every
\* coordinate of the receiver, whatever its variant and the style,
\* degenerate LineStrings and rings of a single coordinate included.
C1_ViewboxContainsEveryCoordinate ==
    pc = "viewbox" => \A co \in CoordsOf(geom) : Contains(vb, co)

---------------------------------------------------------------------------
(* C2  the viewbox of a Rect *)

IsRect(r) ==
    \/ r.kind = "Rect"
    \/ r.kind = "Geometry" /\ r.val.variant = "Rect"

RectOf(r) == IF r.kind = "Rect" THEN r.val ELSE r.val.inner

\* C2 as claimed: the viewbox of a Rect is its corners moved outwards by
\* pad = style.radius + (style.stroke_width if set, else 1.0).
C2_RectPaddedByRadiusAndStroke ==
    (pc = "viewbox" /\ IsRect(geom)) =>
        LET pad == style.radius + StrokePad(style)
            rect == RectOf(geom)
        IN  vb = Rectangle(rect.min.x - pad, rect.min.y - pad,
                           rect.max.x + pad, rect.max.y + pad)

\* C2 as amended: the viewbox of a Rect is its corners moved outwards by
\* pad = (style.stroke_width if set, else 1.0); style.radius adds nothing.
C2_RectPaddedByStrokeOnly ==
    (pc = "viewbox" /\ IsRect(geom)) =>
        LET pad == StrokePad(style)
            rect == RectOf(geom)
        IN  vb = Rectangle(rect.min.x - pad, rect.min.y - pad,
                           rect.max.x + pad, rect.max.y + pad)

\* viewbox has returned for a Rect with distinct corners under a style
\* whose radius is not zero
C2_Witness ==
    /\ pc = "viewbox"
    /\ geom.kind = "Rect"
    /\ geom.val.min.x < geom.val.max.x /\ geom.val.min.y < geom.val.max.y
    /\ style.radius > 0
    /\ style.stroke_width # None

---------------------------------------------------------------------------
(* C9  the viewbox of a Point *)

\* C9: the viewbox of a Point (x, y) is the square (x - r, y - r, x + r,
\* y + r) with r = style.radius + (style.stroke_width if set, else 1.0),
\* and every style with the same radius and stroke width, whatever its
\* point mode, text and icon fields, gives the same viewbox.
C9_PointViewboxIsModeIndependentSquare ==
    (pc = "viewbox" /\ geom.kind = "Point") =>
        LET r == style.radius + StrokePad(style)
        IN  /\ vb = Rectangle(geom.val.x - r, geom.val.y - r,
                              geom.val.x + r, geom.val.y + r)
            /\ \A other \in PointStyles :
                  (other.radius = style.radius
                   /\ other.stroke_width = style.stroke_width)
                  => Point_viewbox(geom.val, other) = vb

\* viewbox has returned for a Point in Poi mode with text and icon size set
C9_Witness ==
    /\ pc = "viewbox"
    /\ geom.kind = "Point"
    /\ style.point_type = <<"Poi">>
    /\ style.text # None
    /\ style.icon_svg_width_height # None
    /\ style.radius = 2
    /\ style.stroke_width = <<3>>
    /\ vb = Rectangle(geom.val.x - 5, geom.val.y - 5, geom.val.x + 5, geom.val.y + 5)

---------------------------------------------------------------------------
(* C10  the viewbox of a Line and of what folds over it *)

\* C10: a call of viewbox on a Line, or on a LineString or Polygon with at
\* least one edge, returns the smallest rectangle around the edges' end
\* points padded on every side by (style.stroke_width if set, else 1.0),
\* whatever style.radius is, and leaves the caller's style as it was.
C10_LinePaddingIgnoresRadius ==
    [][(pc = "start" /\ pc' = "viewbox"
        /\ geom.kind \in {"Line", "LineString", "Polygon"}
        /\ EdgesOf(geom) # {})
       => /\ style' = style
          /\ vb' = PaddedBounds({e.start : e \in EdgesOf(geom)}
                                \cup {e.end : e \in EdgesOf(geom)},
                                StrokePad(style))]_vars

\* viewbox has returned for a Line between two distinct points under a
\* style whose radius is not zero
C10_Witness ==
    /\ pc = "viewbox"
    /\ geom.kind = "Line"
    /\ geom.val.start.x < geom.val.end.x
    /\ geom.val.start.y > geom.val.end.y
    /\ style.radius = 2
    /\ vb = Rectangle(geom.val.start.x - StrokePad(style),
                      geom.val.end.y - StrokePad(style),
                      geom.val.end.x + StrokePad(style),
                      geom.val.start.y + StrokePad(style))

---------------------------------------------------------------------------
(* C3  a Point in Poi mode *)

\* C3: to_svg_str of a Point (x, y) in Poi mode returns an svg element
\* whose top left is (x - width/2, y - height/2) and whose size is
\* width x height (icon_svg_width_height, else 60 x 60), with the viewBox
\* of icon_svg_viewbox (else 0 0 100 100); a text element at
\* (x + width/2 + 15, y + height - 45) holding the label follows it if and
\* only if style.text is set, and nothing else does.  (x2 and y2 hold twice
\* the printed numbers.)
C3_PoiIconAndLabel ==
    (pc = "to_svg_str" /\ geom.kind = "Point" /\ style.point_type = <<"Poi">>) =>
        LET wh == IF style.icon_svg_width_height = <<>> THEN <<60, 60>>
                  ELSE style.icon_svg_width_height[1]
            box == IF style.icon_svg_viewbox = <<>> THEN <<0, 0, 100, 100>>
                   ELSE style.icon_svg_viewbox[1]
            x == geom.val.x
            y == geom.val.y
        IN  /\ Len(out) = (IF style.text = <<>> THEN 1 ELSE 2)
            /\ out[1].tag = "svg"
            /\ out[1].x2 = 2 * x - wh[1]
            /\ out[1].y2 = 2 * y - wh[2]
            /\ out[1].width = wh[1]
            /\ out[1].height = wh[2]
            /\ out[1].viewBox = box
            /\ style.text # <<>> =>
                  /\ out[2].tag = "text"
                  /\ out[2].x2 = 2 * x + wh[1] + 30
                  /\ out[2].y2 = 2 * (y + wh[2]) - 90
                  /\ out[2].body = style.text[1]
            /\ (x = 0 /\ y = 0 /\ style.text = <<>>
                /\ style.icon_svg_width_height = <<>>
                /\ style.icon_svg_viewbox = <<>>) =>
                  /\ Len(out) = 1
                  /\ out[1].x2 = 0 - 60 /\ out[1].y2 = 0 - 60
                  /\ out[1].width = 60 /\ out[1].height = 60

\* to_svg_str has returned for a Point left of and above the origin, in Poi
\* mode with a label and an icon size of its own
C3_Witness ==
    /\ pc = "to_svg_str"
    /\ geom.kind = "Point"
    /\ geom.val.x < 0 /\ geom.val.y < 0
    /\ style.point_type = <<"Poi">>
    /\ style.text # <<>>
    /\ style.icon_svg_width_height = << <<40, 25>> >>
    /\ Len(out) = 2
    /\ out[1].x2 = 0 - 42 /\ out[1].y2 = 0 - 27

---------------------------------------------------------------------------
(* C4  the text on the path of a LineString *)

\* the text elements of a fragment that hold a textPath
TextPaths(frag) ==
    {i \in 1..Len(frag) : frag[i].tag = "text" /\ "textPath" \in DOMAIN frag[i]}

\* C4: to_svg_str of a LineString returns a path element, followed by a
\* textPath element if and only if style.text and style.id are both set;
\* the textPath refers to the style id, holds the text, and carries a
\* startOffset attribute exactly when style.text_start_offset is set.
\* Without one of text and id the fragment is the path element alone.
C4_TextPathNeedsTextAndId ==
    (pc = "to_svg_str" /\ geom.kind = "LineString") =>
        /\ out[1].tag = "path"
        /\ IF style.text # <<>> /\ style.id # <<>>
           THEN /\ Len(out) = 2
                /\ TextPaths(out) = {2}
                /\ out[2].textPath.href = style.id[1]
                /\ out[2].textPath.body = style.text[1]
                /\ out[2].textPath.attrs =
                      (IF style.text_start_offset = <<>> THEN <<>>
                       ELSE << <<"startOffset", style.text_start_offset[1]>> >>)
           ELSE /\ Len(out) = 1
                /\ TextPaths(out) = {}

\* to_svg_str has returned for a LineString under a style with a text and
\* a start offset but no id
C4_Witness ==
    /\ pc = "to_svg_str"
    /\ geom.kind = "LineString"
    /\ Len(geom.val) = 3
    /\ style.text = <<"Main St">>
    /\ style.text_start_offset # <<>>
    /\ style.id = <<>>
    /\ Len(out) = 1

---------------------------------------------------------------------------
(* C5  the subpaths of a Polygon *)

\* path data cut after each Z: the subpaths, and what follows the last Z
RECURSIVE SplitAtZ(_, _, _)
SplitAtZ(d, cur, acc) ==
    IF d = <<>> THEN (IF cur = <<>> THEN acc ELSE Append(acc, cur))
    ELSE IF Head(d) = <<"Z">>
    THEN SplitAtZ(Tail(d), <<>>, Append(acc, Append(cur, Head(d))))
    ELSE SplitAtZ(Tail(d), Append(cur, Head(d)), acc)

\* sp moves to the ring's first vertex, draws a line to each further vertex
\* in order, and closes
MovesLinesCloses(sp, ring) ==
    /\ Len(sp) = Len(ring) + 1
    /\ sp[1][1] = "M"
    /\ \A i \in 1..Len(ring) :
          sp[i] = <<(IF i = 1 THEN "M" ELSE "L"), ring[i].x, ring[i].y>>
    /\ sp[Len(sp)] = <<"Z">>

\* C5 as claimed: to_svg_str of a Polygon with k interior rings returns one
\* path element with fill-rule evenodd whose data is k + 1 subpaths, the
\* exterior's and then the interiors' in input order, each a move-to the
\* ring's first vertex, a line-to for each further vertex, then Z.
C5_EverySubpathMovesLinesCloses ==
    (pc = "to_svg_str" /\ geom.kind = "Polygon") =>
        LET rings == <<geom.val.exterior>> \o geom.val.interiors
            subpaths == SplitAtZ(out[1].d, <<>>, <<>>)
        IN  /\ Len(out) = 1
            /\ out[1].tag = "path"
            /\ out[1].fill_rule = "evenodd"
            /\ Len(subpaths) = Len(geom.val.interiors) + 1
            /\ \A k \in 1..Len(subpaths) : MovesLinesCloses(subpaths[k], rings[k])

\* C5 as amended: as claimed, for every ring that has a vertex; a ring
\* without vertices gives the subpath Z alone, still in its place.
C5_SubpathPerRingInOrder ==
    (pc = "to_svg_str" /\ geom.kind = "Polygon") =>
        LET rings == <<geom.val.exterior>> \o geom.val.interiors
            subpaths == SplitAtZ(out[1].d, <<>>, <<>>)
        IN  /\ Len(out) = 1
            /\ out[1].tag = "path"
            /\ out[1].fill_rule = "evenodd"
            /\ Len(subpaths) = Len(geom.val.interiors) + 1
            /\ \A k \in 1..Len(subpaths) :
                  IF rings[k] = <<>> THEN subpaths[k] = << <<"Z">> >>
                  ELSE MovesLinesCloses(subpaths[k], rings[k])

\* to_svg_str has returned for a Polygon with a triangle as exterior and
\* one hole of another shape: two subpaths
C5_Witness ==
    /\ pc = "to_svg_str"
    /\ geom.kind = "Polygon"
    /\ Len(geom.val.exterior) = 4
    /\ Len(geom.val.interiors) = 1
    /\ Len(geom.val.interiors[1]) = 3
    /\ Len(SplitAtZ(out[1].d, <<>>, <<>>)) = 2
    /\ Len(out[1].d) = 9

---------------------------------------------------------------------------
(* C6  containers render their members one after the other *)

Containers ==
    {"MultiPoint", "MultiLineString", "MultiPolygon", "GeometryCollection",
     "Slice", "Vec"}

\* to_svg_str of one member of a container of the given kind
MemberSvg(kind, m, s) ==
    CASE kind = "MultiPoint" -> Point_to_svg_str(m, s)
      [] kind = "MultiLineString" -> LineString_to_svg_str(m, s)
      [] kind = "MultiPolygon" -> Polygon_to_svg_str(m, s)
      [] kind = "GeometryCollection" -> Geometry_to_svg_str(m, s)
      [] kind \in {"Slice", "Vec"} -> T_to_svg_str(m, s)

\* viewbox of one member of a container of the given kind
MemberViewbox(kind, m, s) ==
    CASE kind = "MultiPoint" -> Point_viewbox(m, s)
      [] kind = "MultiLineString" -> LineString_viewbox(m, s)
      [] kind = "MultiPolygon" -> Polygon_viewbox(m, s)
      [] kind = "GeometryCollection" -> Geometry_viewbox(m, s)
      [] kind \in {"Slice", "Vec"} -> T_viewbox(m, s)

\* the number of elements the first n of the parts hold
RECURSIVE Offset(_, _)
Offset(parts, n) == IF n = 0 THEN 0 ELSE Offset(parts, n - 1) + Len(parts[n])

\* frag is the parts one after the other, in order, nothing between them
IsConcatenation(frag, parts) ==
    /\ Len(frag) = Offset(parts, Len(parts))
    /\ \A i \in 1..Len(parts) : \A j \in 1..Len(parts[i]) :
          frag[Offset(parts, i - 1) + j] = parts[i][j]

\* C6: to_svg_str of a MultiPoint, MultiLineString, MultiPolygon,
\* GeometryCollection, Vec or slice returns its members' fragments under
\* the same style one after the other, in input order, with nothing
\* between them; of an empty container, the empty fragment.
C6_ContainerRendersMembersInOrder ==
    (pc = "to_svg_str" /\ geom.kind \in Containers) =>
        /\ IsConcatenation(out, [i \in 1..Len(geom.val) |->
                                    MemberSvg(geom.kind, geom.val[i], style)])
        /\ geom.val = <<>> => out = <<>>

\* to_svg_str has returned for a MultiPoint of two different points in Poi
\* mode with a label: four elements, two per point
C6_Witness ==
    /\ pc = "to_svg_str"
    /\ geom.kind = "MultiPoint"
    /\ Len(geom.val) = 2
    /\ geom.val[1] # geom.val[2]
    /\ style.point_type = <<"Poi">>
    /\ style.text # <<>>
    /\ Len(out) = 4
    /\ out[1] # out[3]

---------------------------------------------------------------------------
(* C7  the viewbox of a MultiPolygon *)

Sides(boxes, side) ==
    {boxes[i][side][1] : i \in {j \in 1..Len(boxes) : boxes[j][side] # <<>>}}

\* the union of rectangles: on each side the extreme of the sides set
UnionOf(boxes) ==
    [min_x |-> IF Sides(boxes, "min_x") = {} THEN <<>>
               ELSE <<SetMin(Sides(boxes, "min_x"))>>,
     min_y |-> IF Sides(boxes, "min_y") = {} THEN <<>>
               ELSE <<SetMin(Sides(boxes, "min_y"))>>,
     max_x |-> IF Sides(boxes, "max_x") = {} THEN <<>>
               ELSE <<SetMax(Sides(boxes, "max_x"))>>,
     max_y |-> IF Sides(boxes, "max_y") = {} THEN <<>>
               ELSE <<SetMax(Sides(boxes, "max_y"))>>]

\* C7: viewbox of a MultiPolygon returns the union of its polygons'
\* viewboxes, and returns the same rectangle for the same polygons in any
\* other order.
C7_MultiPolygonViewboxIsOrderFreeUnion ==
    (pc = "viewbox" /\ geom.kind = "MultiPolygon") =>
        LET n == Len(geom.val)
        IN  /\ vb = UnionOf([i \in 1..n |-> Polygon_viewbox(geom.val[i], style)])
            /\ \A p \in Permutations(1..n) :
                  MultiPolygon_viewbox([i \in 1..n |-> geom.val[p[i]]], style) = vb

\* viewbox has returned for a MultiPolygon whose first polygon's viewbox is
\* neither the second's nor the whole of the result
C7_Witness ==
    /\ pc = "viewbox"
    /\ geom.kind = "MultiPolygon"
    /\ Len(geom.val) = 2
    /\ Polygon_viewbox(geom.val[1], style) # ViewBox_default
    /\ Polygon_viewbox(geom.val[2], style) # ViewBox_default
    /\ Polygon_viewbox(geom.val[1], style) # vb
    /\ Polygon_viewbox(geom.val[2], style) # vb

---------------------------------------------------------------------------
(* C8  the algebra of ViewBox::add *)

\* C8: a.add(b).add(c) is a.add(b.add(c)), a.add(b) is b.add(a) and
\* ViewBox::default().add(a) is a, for the rectangles and the default; and
\* viewbox of a container with a single member returns that member's
\* viewbox unchanged.
C8_AddIsAssociativeCommutativeWithIdentity ==
    /\ pc = "add_ab" => vb = ViewBox_add(b, a)
    /\ pc = "add_ab_c" => vb = ViewBox_add(a, ViewBox_add(b, c))
    /\ pc = "add_default" => vb = a
    /\ (pc = "viewbox" /\ geom.kind \in Containers /\ Len(geom.val) = 1) =>
          vb = MemberViewbox(geom.kind, geom.val[1], style)

\* a.add(b).add(c) has returned for three rectangles of which none is the
\* result
C8_Witness ==
    /\ pc = "add_ab_c"
    /\ a # ViewBox_default /\ b # ViewBox_default /\ c # ViewBox_default
    /\ vb # a /\ vb # b /\ vb # c

====
